---- MODULE Spec2Model ----
(***************************************************************************)
(* GTO Wizard Browser Controller (src/main.py): the session registry      *)
(* (create / background launch / status / list / close) and the           *)
(* get-range handler that clicks the filter controls of the page.         *)
(*                                                                         *)
(* Every handler is an asyncio coroutine on one event loop: the code       *)
(* between two awaits runs atomically, and other coroutines run only at    *)
(* an await.  One action of the model is one such stretch: it resumes a    *)
(* coroutine from its pending await with one outcome of the awaited call   *)
(* and runs it to its next await, or to its response.                      *)
(***************************************************************************)
EXTENDS Integers, Sequences, FiniteSets, TLC

\* ---------------------------------------------------------------- bounds
\* Session ids uuid4 hands out during one run: 1..MaxSessions.
MaxSessions == 2
\* Handlers that may be suspended at an await at the same time.
MaxInFlight == 2
\* Filter fields a generated get-range payload supplies at most.
MaxSupplied == 2

\* ------------------------------------------------------ values and strings
\* Optional[str] = None (a field left out of the payload).
None == "<None>"

\* A Python str is its sequence of characters: Chars[v] are the characters of
\* every string a payload of the model carries.
Chars ==
    "Cash" :> <<"C", "a", "s", "h">> @@
    "MTT" :> <<"M", "T", "T">> @@
    "Spin & Go" :> <<"S", "p", "i", "n", " ", "&", " ", "G", "o">> @@
    "Hu SnG" :> <<"H", "u", " ", "S", "n", "G">> @@
    "Classic" :> <<"C", "l", "a", "s", "s", "i", "c">> @@
    "Short" :> <<"S", "h", "o", "r", "t">> @@
    "Ante" :> <<"A", "n", "t", "e">> @@
    "Straddle" :> <<"S", "t", "r", "a", "d", "d", "l", "e">> @@
    "Straddle+Ante" :> <<"S", "t", "r", "a", "d", "d", "l", "e", "+", "A", "n", "t", "e">> @@
    "DoubleStraddle" :> <<"D", "o", "u", "b", "l", "e", "S", "t", "r", "a", "d", "d", "l", "e">> @@
    "MississippiStraddle" :> <<"M", "i", "s", "s", "i", "s", "s", "i", "p", "p", "i", "S", "t", "r", "a", "d", "d", "l", "e">> @@
    "Heads-up" :> <<"H", "e", "a", "d", "s", "-", "u", "p">> @@
    "6max" :> <<"6", "m", "a", "x">> @@
    "8max" :> <<"8", "m", "a", "x">> @@
    "9max" :> <<"9", "m", "a", "x">> @@
    "postflop_included" :> <<"p", "o", "s", "t", "f", "l", "o", "p", "_", "i", "n", "c", "l", "u", "d", "e", "d">> @@
    "preflop_only" :> <<"p", "r", "e", "f", "l", "o", "p", "_", "o", "n", "l", "y">> @@
    "Any" :> <<"A", "n", "y">> @@
    "200" :> <<"2", "0", "0">> @@
    "150" :> <<"1", "5", "0">> @@
    "100" :> <<"1", "0", "0">> @@
    "75" :> <<"7", "5">> @@
    "50" :> <<"5", "0">> @@
    "40" :> <<"4", "0">> @@
    "20" :> <<"2", "0">> @@
    "Simple" :> <<"S", "i", "m", "p", "l", "e">> @@
    "Simplified" :> <<"S", "i", "m", "p", "l", "i", "f", "i", "e", "d">> @@
    "General" :> <<"G", "e", "n", "e", "r", "a", "l">> @@
    "NL50" :> <<"N", "L", "5", "0">> @@
    "NL500" :> <<"N", "L", "5", "0", "0">> @@
    "NL50 GG" :> <<"N", "L", "5", "0", " ", "G", "G">> @@
    "NL1k GG" :> <<"N", "L", "1", "k", " ", "G", "G">> @@
    "GTO" :> <<"G", "T", "O">> @@
    "2.5x" :> <<"2", ".", "5", "x">> @@
    "Smaller" :> <<"S", "m", "a", "l", "l", "e", "r">> @@
    "OOP" :> <<"O", "O", "P">> @@
    "IP" :> <<"I", "P">> @@
    "Nonexistent" :> <<"N", "o", "n", "e", "x", "i", "s", "t", "e", "n", "t">> @@
    "" :> <<>> @@
    " " :> <<" ">>

\* str.strip(): the characters without leading and trailing whitespace.
RECURSIVE LStrip(_)
LStrip(cs) ==
    IF cs # <<>> /\ Head(cs) = " " THEN LStrip(Tail(cs)) ELSE cs

RECURSIVE RStrip(_)
RStrip(cs) ==
    IF cs # <<>> /\ cs[Len(cs)] = " " THEN RStrip(SubSeq(cs, 1, Len(cs) - 1)) ELSE cs

strip(cs) == RStrip(LStrip(cs))

\* Faulty variant of Supplied: only a field that is left out is skipped.
Supplied_unless_absent(v) == v # None

\* `request.f and request.f.strip()` as a condition: the field is present, is
\* not the empty string and is not made of whitespace only.
Supplied(v) ==
    /\ v # None
    /\ Chars[v] # <<>>
    /\ strip(Chars[v]) # <<>>

\* ------------------------------------------------------------- the filters
\* Faulty variant of Filters: the cash_type block comes before the solutions
\* block.
Filters_cash_type_first ==
    << "cash_type", "solutions", "cash_players", "available_spots", "cash_stacks",
       "bet_sizes", "rake", "cash_open_size", "cash_3bet_size", "hero" >>

\* The filter blocks of get_range_action, in the order the code runs them.
Filters ==
    << "solutions", "cash_type", "cash_players", "available_spots", "cash_stacks",
       "bet_sizes", "rake", "cash_open_size", "cash_3bet_size", "hero" >>

FilterNames == { Filters[k] : k \in 1..Len(Filters) }

\* The value -> data-tst tables.
solutions_map ==
    "Cash" :> "chrow_cash" @@ "MTT" :> "chrow_mtt" @@
    "Spin & Go" :> "chrow_spins" @@ "Hu SnG" :> "chrow_husng"

cash_type_map ==
    "Classic" :> "chrow_classic" @@ "Short" :> "chrow_shortstack" @@
    "Ante" :> "chrow_ante" @@ "Straddle" :> "chrow_straddle" @@
    "Straddle+Ante" :> "chrow_ante_straddle" @@
    "DoubleStraddle" :> "chrow_double_straddle" @@
    "MississippiStraddle" :> "chrow_mississippi_straddle"

cash_players_map ==
    "Heads-up" :> "chrow_hu" @@ "6max" :> "chrow_6max" @@
    "8max" :> "chrow_8max" @@ "9max" :> "chrow_9max"

available_spots_map ==
    "postflop_included" :>
        [data_tst |-> "chrow_all_spots", display_text |-> "Postflop included"] @@
    "preflop_only" :>
        [data_tst |-> "chrow_preflop_only", display_text |-> "Preflop only"]

cash_stacks_map ==
    "Any" :> "chrow_any" @@ "200" :> "chrow_200" @@ "150" :> "chrow_150" @@
    "100" :> "chrow_100" @@ "75" :> "chrow_75" @@ "50" :> "chrow_50" @@
    "40" :> "chrow_40" @@ "20" :> "chrow_20"

bet_sizes_map ==
    "Any" :> "chrow_any" @@ "Simple" :> "chrow_simple" @@
    "Simplified" :> "chrow_simplified" @@ "General" :> "chrow_general"

rake_map ==
    "Any" :> "chrow_any" @@ "NL50" :> "chrow_NL50" @@ "NL500" :> "chrow_NL500" @@
    "NL50 GG" :> "chrow_GG NL50" @@ "NL1k GG" :> "chrow_GG NL1k"

cash_open_size_map ==
    "Any" :> "chrow_any" @@ "GTO" :> "chrow_gto" @@ "2.5x" :> "chrow_25x"

cash_3bet_size_map ==
    "Any" :> "chrow_any" @@ "GTO" :> "chrow_gto" @@ "Smaller" :> "chrow_smaller"

hero_map ==
    "Any" :> None @@ "OOP" :> "chrow_oop" @@ "IP" :> "chrow_ip"

\* The keys of the table of filter f: `request.f not in f_map` tests these.
MapKeys(f) ==
    CASE f = "solutions"       -> DOMAIN solutions_map
      [] f = "cash_type"       -> DOMAIN cash_type_map
      [] f = "cash_players"    -> DOMAIN cash_players_map
      [] f = "available_spots" -> DOMAIN available_spots_map
      [] f = "cash_stacks"     -> DOMAIN cash_stacks_map
      [] f = "bet_sizes"       -> DOMAIN bet_sizes_map
      [] f = "rake"            -> DOMAIN rake_map
      [] f = "cash_open_size"  -> DOMAIN cash_open_size_map
      [] f = "cash_3bet_size"  -> DOMAIN cash_3bet_size_map
      [] f = "hero"            -> DOMAIN hero_map

\* The "Must be one of: ..." list of the error each block raises for a value
\* that is not a key of its table (written out in the message, not derived from
\* the table).
MustBeOneOf(f) ==
    CASE f = "solutions"       -> << "Cash", "MTT", "Spin & Go", "Hu SnG" >>
      [] f = "cash_type"       -> << "Classic", "Short", "Ante", "Straddle", "Straddle+Ante",
                                     "DoubleStraddle", "MississippiStraddle" >>
      [] f = "cash_players"    -> << "Heads-up", "6max", "8max", "9max" >>
      [] f = "available_spots" -> << "postflop_included", "preflop_only" >>
      [] f = "cash_stacks"     -> << "Any", "200", "150", "100", "75", "50", "40", "20" >>
      [] f = "bet_sizes"       -> << "Any", "Simple", "Simplified", "General" >>
      [] f = "rake"            -> << "Any", "NL50", "NL500", "NL50 GG", "NL1k GG" >>
      [] f = "cash_open_size"  -> << "Any", "GTO", "2.5x" >>
      [] f = "cash_3bet_size"  -> << "Any", "GTO", "Smaller" >>
      [] f = "hero"            -> << "Any", "OOP", "IP" >>

\* ------------------------------------------------------------ the registry
VARIABLES
    active_sessions,  \* the dict active_sessions: session id -> session info
    launch,           \* the launch_browser_session task of each session id
    handles,          \* the Playwright objects each launch created, and their state
    calls,            \* the handlers suspended at an await, one per slot
    resp,             \* the response the last step sent (NoResponse: it sent none)
    uuids             \* how many ids uuid4 has handed out

vars == << active_sessions, launch, handles, calls, resp, uuids >>

SessionIds == 1..MaxSessions
\* Ids a client may name: the ids of the run, and 0, an id no session ever has.
ClientIds == 0..MaxSessions
Slots == 1..MaxInFlight

\* The values of the `action` field the clients send: each is the wrong one for
\* one of the two handlers that read it.
Actions == { "create", "get-range" }

\* The URL every session opens (line 64), without its query string.
gto_wizard_url == "https://app.gtowizard.com/practice/range-builder"

\* The objects launch_browser_session creates, in the order it creates them.
AcquireOrder == << "playwright", "browser", "context", "page" >>
\* Faulty variant of CloseOrder: the browser is closed before its page and
\* context.
CloseOrder_browser_first == << "browser", "page", "context", "playwright" >>
\* The keys close_session tests and closes, in the order of its four ifs.
CloseOrder == << "page", "context", "browser", "playwright" >>
HandleNames == { "playwright", "browser", "context", "page" }

Idle == [ op |-> "idle" ]
NoResponse == [ op |-> "none", code |-> 0 ]

\* A suspended handler takes the first slot that holds none.
FreeSlot(c) ==
    /\ calls[c] = Idle
    /\ \A d \in Slots : d < c => calls[d] # Idle

\* The dict without key k (del d[k]).
Del(d, k) == [ x \in DOMAIN d \ {k} |-> d[x] ]

Init ==
    /\ active_sessions = << >>
    /\ launch = [ s \in SessionIds |-> [ pc |-> "none", acquired |-> << >> ] ]
    /\ handles = [ s \in SessionIds |-> [ h \in HandleNames |-> "none" ] ]
    /\ calls = [ c \in Slots |-> Idle ]
    /\ resp = NoResponse
    /\ uuids = 0

\* GET /
root ==
    /\ resp' = [ op |-> "root", code |-> 200 ]
    /\ UNCHANGED << active_sessions, launch, handles, calls, uuids >>

\* Faulty variant of uuid4: it returns the id it returned last.
uuid4_repeated == IF uuids = 0 THEN 1 ELSE uuids

\* str(uuid.uuid4()): an id no earlier call returned (a random 122-bit value;
\* the ids are numbered in the order they are drawn).
uuid4 == uuids + 1

\* Faulty variant of create_browser_session: it registers the session and
\* schedules the launch before it looks at the action.
create_browser_session_late_check(action) ==
    /\ uuids < MaxSessions
    /\ LET session_id == uuid4 IN
       /\ uuids' = uuids + 1
       /\ launch' = [ launch EXCEPT ![session_id] =
                        [ pc |-> "playwright", acquired |-> << >> ] ]
       /\ active_sessions' =
            (session_id :> [ status |-> "launching", url |-> gto_wizard_url,
                             keys |-> {}, error |-> None ])
            @@ Del(active_sessions, session_id)
       /\ resp' = IF action # "create"
                  THEN [ op |-> "create", action |-> action, code |-> 400,
                         detail |-> "Action must be 'create'" ]
                  ELSE [ op |-> "create", action |-> action, code |-> 200,
                         session_id |-> session_id, status |-> "launching" ]
    /\ UNCHANGED << handles, calls >>

\* POST /create.  The handler has no await: create_task only schedules the
\* launch, which first runs after the handler has stored the entry and returned.
create_browser_session(action) ==
    IF action # "create"
    THEN /\ resp' = [ op |-> "create", action |-> action, code |-> 400,
                      detail |-> "Action must be 'create'" ]
         /\ UNCHANGED << active_sessions, launch, handles, calls, uuids >>
    ELSE /\ uuids < MaxSessions
         /\ LET session_id == uuid4 IN
            /\ uuids' = uuids + 1
            /\ launch' = [ launch EXCEPT ![session_id] =
                             [ pc |-> "playwright", acquired |-> << >> ] ]
            /\ active_sessions' =
                 (session_id :> [ status |-> "launching", url |-> gto_wizard_url,
                                  keys |-> {}, error |-> None ])
                 @@ Del(active_sessions, session_id)
            /\ resp' = [ op |-> "create", action |-> action, code |-> 200,
                         session_id |-> session_id, status |-> "launching" ]
         /\ UNCHANGED << handles, calls >>

\* The await after pc in launch_browser_session.
LaunchNext(pc) ==
    CASE pc = "playwright" -> "browser"
      [] pc = "browser"    -> "context"
      [] pc = "context"    -> "page"
      [] pc = "page"       -> "goto"

\* Faulty variant of LaunchUpdate: it writes a status no other code knows.
LaunchUpdate_ready(info) ==
    [ info EXCEPT !.status = "ready",
                  !.keys = @ \cup { "browser", "context", "page", "playwright" } ]

\* Lines 905-911: active_sessions[session_id].update({...}).
LaunchUpdate(info) ==
    [ info EXCEPT !.status = "active",
                  !.keys = @ \cup { "browser", "context", "page", "playwright" } ]

\* Faulty variant of LaunchError: the except branch also stores the engine
\* when it was started before the failure.
LaunchError_keeps_engine(info, failed) ==
    [ info EXCEPT !.status = "error", !.error = failed,
                  !.keys = IF failed # "playwright" THEN @ \cup { "playwright" } ELSE @ ]

\* Faulty variant of LaunchError: the except branch forgets the message.
LaunchError_drops_message(info, failed) ==
    [ info EXCEPT !.status = "error" ]

\* Lines 918-921: the except branch, with str(e) naming the call that raised.
LaunchError(info, failed) ==
    [ info EXCEPT !.status = "error", !.error = failed ]

\* Faulty variant of launch_browser_session: at its end the launch writes
\* the entry whether or not the registry still holds it.
launch_browser_session_reinserts(s, ok) ==
    LET pc == launch[s].pc
        info == IF s \in DOMAIN active_sessions THEN active_sessions[s]
                ELSE [ status |-> "launching", url |-> gto_wizard_url,
                       keys |-> {}, error |-> None ]
    IN /\ pc \in { "playwright", "browser", "context", "page", "goto" }
       /\ IF ok /\ pc # "goto"
          THEN /\ launch' = [ launch EXCEPT ![s] =
                                [ pc |-> LaunchNext(pc), acquired |-> Append(@.acquired, pc) ] ]
               /\ handles' = [ handles EXCEPT ![s][pc] = "open" ]
               /\ UNCHANGED active_sessions
          ELSE /\ active_sessions' =
                    [ t \in DOMAIN active_sessions \cup { s } |->
                        IF t = s
                        THEN (IF ok THEN LaunchUpdate(info) ELSE LaunchError(info, pc))
                        ELSE active_sessions[t] ]
               /\ launch' = [ launch EXCEPT ![s].pc = "returned" ]
               /\ UNCHANGED handles
       /\ resp' = NoResponse
       /\ UNCHANGED << calls, uuids >>

\* One await of launch_browser_session(s) returns (ok) or raises.  A lookup of
\* active_sessions[s] after the entry was deleted raises KeyError: in the try
\* block it lands in the except branch, whose own lookup raises again and ends
\* the task with the exception.
launch_browser_session(s, ok) ==
    LET pc == launch[s].pc IN
    /\ pc \in { "playwright", "browser", "context", "page", "goto" }
    /\ IF ok /\ pc # "goto"
       THEN /\ launch' = [ launch EXCEPT ![s] =
                             [ pc |-> LaunchNext(pc), acquired |-> Append(@.acquired, pc) ] ]
            /\ handles' = [ handles EXCEPT ![s][pc] = "open" ]
            /\ UNCHANGED active_sessions
       ELSE /\ IF s \in DOMAIN active_sessions
               THEN /\ active_sessions' =
                         [ active_sessions EXCEPT ![s] =
                             IF ok THEN LaunchUpdate(@) ELSE LaunchError(@, pc) ]
                    /\ launch' = [ launch EXCEPT ![s].pc = "returned" ]
               ELSE /\ launch' = [ launch EXCEPT ![s].pc = "crashed" ]
                    /\ UNCHANGED active_sessions
            /\ UNCHANGED handles
    /\ resp' = NoResponse
    /\ UNCHANGED << calls, uuids >>

\* Faulty variant of list_sessions: only the active sessions are listed.
list_sessions_active_only ==
    LET listed == { s \in DOMAIN active_sessions : active_sessions[s].status = "active" }
    IN /\ resp' = [ op |-> "list", code |-> 200,
                    sessions |-> { [ session_id |-> s, status |-> active_sessions[s].status,
                                     url |-> active_sessions[s].url ] : s \in listed },
                    total |-> Cardinality(listed) ]
       /\ UNCHANGED << active_sessions, launch, handles, calls, uuids >>

\* GET /sessions
list_sessions ==
    /\ resp' = [ op |-> "list", code |-> 200,
                 sessions |-> { [ session_id |-> s, status |-> active_sessions[s].status,
                                  url |-> active_sessions[s].url ] :
                                s \in DOMAIN active_sessions },
                 total |-> Cardinality(DOMAIN active_sessions) ]
    /\ UNCHANGED << active_sessions, launch, handles, calls, uuids >>

\* Faulty variant of get_session_status: a query that finds the session in
\* status "error" drops its entry.
get_session_status_reaping(session_id) ==
    /\ resp' =
         IF session_id \notin DOMAIN active_sessions
         THEN [ op |-> "status", session_id |-> session_id, code |-> 404,
                detail |-> "Session not found" ]
         ELSE [ op |-> "status", session_id |-> session_id, code |-> 200,
                status |-> active_sessions[session_id].status,
                url |-> active_sessions[session_id].url ]
    /\ active_sessions' =
         IF session_id \in DOMAIN active_sessions
            /\ active_sessions[session_id].status = "error"
         THEN [ s \in DOMAIN active_sessions \ { session_id } |-> active_sessions[s] ]
         ELSE active_sessions
    /\ UNCHANGED << launch, handles, calls, uuids >>

\* GET /sessions/{session_id}
get_session_status(session_id) ==
    /\ resp' =
         IF session_id \notin DOMAIN active_sessions
         THEN [ op |-> "status", session_id |-> session_id, code |-> 404,
                detail |-> "Session not found" ]
         ELSE [ op |-> "status", session_id |-> session_id, code |-> 200,
                status |-> active_sessions[session_id].status,
                url |-> active_sessions[session_id].url ]
    /\ UNCHANGED << active_sessions, launch, handles, calls, uuids >>

\* ------------------------------------------------------------ get_range_action
\* A selector is the f-string that builds it and the text substituted in it.
Sel(template, arg) == << template, arg >>

\* The panel-open selectors (lines 124-129).
selectors ==
    << Sel("div.gmfover.text-noselect.gw_loading_text", ""),
       Sel("div.gmfover", ""),
       Sel("div[class*='gmfover']", ""),
       Sel("div[class*='gw_loading_text']", "") >>

\* data_tst_value of filter f for a key v of its table.
DataTst(f, v) ==
    CASE f = "solutions"       -> solutions_map[v]
      [] f = "cash_type"       -> cash_type_map[v]
      [] f = "cash_players"    -> cash_players_map[v]
      [] f = "available_spots" -> available_spots_map[v].data_tst
      [] f = "cash_stacks"     -> cash_stacks_map[v]
      [] f = "bet_sizes"       -> bet_sizes_map[v]
      [] f = "rake"            -> rake_map[v]
      [] f = "cash_open_size"  -> cash_open_size_map[v]
      [] f = "cash_3bet_size"  -> cash_3bet_size_map[v]
      [] f = "hero"            -> hero_map[v]

\* The five selectors most blocks try: by data-tst, by data-tst and span, and
\* three by the text shown on the button.
CommonSelectors(data_tst_value, text) ==
    << Sel("div[data-tst='{}']", data_tst_value),
       Sel("div[data-tst='{}'] span", data_tst_value),
       Sel("div:has-text('{}')", text),
       Sel("text={}", text),
       Sel("div.gw_btn.gw_btn_text.gw_loading_text.cherow_row_checkbox.cherow_row_checkbox_item:has-text('{}')", text) >>

cash_open_size_selectors(v) ==
    IF v = "Any"
    THEN << Sel("div:has-text('Opening'):has-text('Any')", ""),
            Sel("div:has-text('{}'):near(div:has-text('Opening'))", v) >>
         \o CommonSelectors(cash_open_size_map[v], v)
    ELSE CommonSelectors(cash_open_size_map[v], v)

cash_3bet_size_selectors(v) ==
    CASE v = "Any" ->
           << Sel("div.gw_btn.gw_btn_text.gw_loading_text.cherow_row_checkbox.cherow_row_checkbox_item:has-text('Any'):near(div[data-tst='chrow_smaller']):not(:has([data-tst]))", ""),
              Sel("div:has-text('Any'):near(div:has-text('Smaller')):not([data-tst])", ""),
              Sel("div:has-text('Any'):near(div:has-text('GTO')):near(div:has-text('Smaller'))", ""),
              Sel("div:has-text('Any'):near(div[data-tst='chrow_smaller'])", ""),
              Sel("div:has-text('{}')", v),
              Sel("text={}", v),
              Sel("div.gw_btn.gw_btn_text.gw_loading_text.cherow_row_checkbox.cherow_row_checkbox_item:has-text('{}')", v) >>
      [] v = "GTO" ->
           << Sel("div[data-tst='chrow_gto']:near(div[data-tst='chrow_smaller']):not(:near(div:has-text('2.5x')))", ""),
              Sel("div[data-tst='chrow_gto']:near(div[data-tst='chrow_smaller']):not(:near(div:has-text('Opening')))", ""),
              Sel("div[data-tst='chrow_gto']:near(div:has-text('Any'):not([data-tst])):near(div[data-tst='chrow_smaller'])", ""),
              Sel("div:has-text('Any'):not([data-tst]) + div[data-tst='chrow_gto']", ""),
              Sel("div:has-text('Any'):not([data-tst]) ~ div[data-tst='chrow_gto']", ""),
              Sel("div[data-tst='chrow_gto']:has(+ div[data-tst='chrow_smaller'])", ""),
              Sel("div[data-tst='chrow_gto']:has(~ div[data-tst='chrow_smaller'])", ""),
              Sel("div:has-text('GTO'):near(div:has-text('Any')):near(div:has-text('Smaller'))", ""),
              Sel("div:has-text('{}'):near(div:has-text('Smaller'))", v),
              Sel("div:has-text('{}'):near(div[data-tst='chrow_smaller'])", v) >>
           \o CommonSelectors(cash_3bet_size_map[v], v)
      [] OTHER -> CommonSelectors(cash_3bet_size_map[v], v)

hero_selectors(v) ==
    CASE v = "OOP" -> << Sel("div[data-tst='chrow_oop']", ""),
                         Sel("div:has-text('OOP')", ""),
                         Sel("div.gw_btn:has-text('OOP')", "") >>
      [] v = "IP"  -> << Sel("div[data-tst='chrow_ip']", ""),
                         Sel("div:has-text('IP')", ""),
                         Sel("div.gw_btn:has-text('IP')", "") >>
      [] v = "Any" -> << Sel("div:has-text('Any'):not([data-tst])", ""),
                         Sel("div.gw_btn:has-text('Any')", "") >>

\* The selector list the block of filter f tries for a key v of its table.
Selectors(f, v) ==
    CASE f = "available_spots" ->
           CommonSelectors(DataTst(f, v), available_spots_map[v].display_text)
      [] f = "cash_open_size"  -> cash_open_size_selectors(v)
      [] f = "cash_3bet_size"  -> cash_3bet_size_selectors(v)
      [] f = "hero"            -> hero_selectors(v)
      [] OTHER                 -> CommonSelectors(DataTst(f, v), v)

\* Faulty variant of RaisesWhenNotClicked: no block raises when its loop
\* ends without a click.
RaisesWhenNotClicked_never(f, v) == FALSE

\* Whether the block of f ends with `if not f_clicked: raise Exception(...)`
\* on the path value v takes.  The hero block has that check inside its
\* `elif request.hero == "Any"` branch only (lines 796-818).
RaisesWhenNotClicked(f, v) ==
    f # "hero" \/ v = "Any"

\* Whether the block of f waits for the button to turn active after a click
\* (the hero block does not).
Verifies(f) == f # "hero"

\* -------------------------------------------------- the success response
\* str.lower() on the characters of the payload strings (ASCII).
UpperToLower ==
    "A" :> "a" @@ "B" :> "b" @@ "C" :> "c" @@ "D" :> "d" @@ "E" :> "e" @@ "F" :> "f" @@ "G" :> "g" @@
    "H" :> "h" @@ "I" :> "i" @@ "J" :> "j" @@ "K" :> "k" @@ "L" :> "l" @@ "M" :> "m" @@ "N" :> "n" @@
    "O" :> "o" @@ "P" :> "p" @@ "Q" :> "q" @@ "R" :> "r" @@ "S" :> "s" @@ "T" :> "t" @@ "U" :> "u" @@
    "V" :> "v" @@ "W" :> "w" @@ "X" :> "x" @@ "Y" :> "y" @@ "Z" :> "z"

LowerChar(ch) == IF ch \in DOMAIN UpperToLower THEN UpperToLower[ch] ELSE ch

lower(cs) == [ k \in 1..Len(cs) |-> LowerChar(cs[k]) ]

\* str.replace(old, new) for a one-character old: every occurrence, left to right.
RECURSIVE replace(_, _, _)
replace(cs, old, new) ==
    IF cs = << >> THEN << >>
    ELSE (IF Head(cs) = old THEN new ELSE << Head(cs) >>) \o replace(Tail(cs), old, new)

clicked_ == << "c", "l", "i", "c", "k", "e", "d", "_" >>
_and_ == << "_", "a", "n", "d", "_" >>
clicked_range_selector == << "c", "l", "i", "c", "k", "e", "d", "_", "r", "a", "n", "g", "e", "_", "s", "e", "l", "e", "c", "t", "o", "r" >>

\* Faulty variant of TokenText: the value is lowered and nothing is replaced.
TokenText_lower_only(f, cs) == lower(cs)

\* The text after "clicked_" in the action token of filter f (lines 825-861).
TokenText(f, cs) ==
    CASE f = "solutions" ->
           replace(replace(lower(cs), " ", << "_" >>), "&", << "a", "n", "d" >>)
      [] f = "cash_type" ->
           replace(replace(replace(lower(cs), " ", << "_" >>),
                           "+", << "p", "l", "u", "s" >>),
                   "&", << "a", "n", "d" >>)
      [] f \in { "cash_players", "available_spots" } ->
           replace(replace(lower(cs), " ", << "_" >>), "-", << "_" >>)
      [] f = "rake" ->
           replace(replace(lower(cs), " ", << "_" >>), "k", << "k" >>)
      [] f = "cash_open_size" ->
           replace(lower(cs), ".", << "_" >>)
      [] OTHER -> lower(cs)

\* actions_performed: one token per field that passes the `x and x.strip()` test
\* of its block, in the order of the blocks.
RECURSIVE actions_performed(_, _)
actions_performed(req, k) ==
    IF k > Len(Filters) THEN << >>
    ELSE (IF Supplied(req[Filters[k]])
          THEN << clicked_ \o TokenText(Filters[k], Chars[req[Filters[k]]]) >>
          ELSE << >>)
         \o actions_performed(req, k + 1)

\* Faulty variant of join: the parts are concatenated without the separator.
RECURSIVE join_without_separator(_, _)
join_without_separator(sep, parts) ==
    IF parts = << >> THEN << >>
    ELSE parts[1] \o join_without_separator(sep, Tail(parts))

\* sep.join(parts) on character sequences.
RECURSIVE join(_, _)
join(sep, parts) ==
    IF parts = << >> THEN << >>
    ELSE IF Len(parts) = 1 THEN parts[1]
    ELSE parts[1] \o sep \o join(sep, Tail(parts))

\* Line 864.
action_performed(req) ==
    IF actions_performed(req, 1) # << >>
    THEN join(_and_, actions_performed(req, 1))
    ELSE clicked_range_selector

\* message_parts (lines 822-862): the fixed first part, then
\* "<value> <filter> button" for every such field; the message is the parts
\* joined by " and ".  A part is kept as the pieces its f-string concatenates.
RECURSIVE filter_message_parts(_, _)
filter_message_parts(req, k) ==
    IF k > Len(Filters) THEN << >>
    ELSE (IF Supplied(req[Filters[k]])
          THEN << << req[Filters[k]], " ", Filters[k], " button" >> >>
          ELSE << >>)
         \o filter_message_parts(req, k + 1)

message_parts(req) ==
    << << "Successfully clicked on range selector div" >> >> \o filter_message_parts(req, 1)

\* ------------------------------------------------ the handler's control flow
\* A suspended get-range call:
\*   req            the payload
\*   page           the session whose page the call holds (line 107)
\*   pc             its pending await: "load" (line 115), "panel" (one round of
\*                  the loop of lines 132-144), "filter" (one round of the
\*                  selector loop of a filter block)
\*   f, i           the filter block (index in Filters) and the selector (index
\*                  in its list) of the pending round
\*   element_found  the flag of lines 131-147
\*   attempted      the targets ("load", "panel", filters) a wait was issued for,
\*                  in the order of their first wait
\*   clicks         the target of every click made on the page, in order
\*   response       the response, once pc = "done"

\* Faulty variant of Failed: an invalid value is answered 400.
Failed_as_bad_request(call, error, f) ==
    [ call EXCEPT
        !.pc = "done",
        !.response =
            [ op |-> "get-range", action |-> call.req.action,
              session_id |-> call.req.session_id,
              code |-> IF error = "Invalid value" THEN 400 ELSE 500,
              detail |-> [ error |-> error, filter |-> f, value |-> call.req[f],
                           must_be_one_of |->
                               IF error = "Invalid value" THEN MustBeOneOf(f) ELSE << >> ] ] ]

\* The HTTPException of line 878 around an exception of the try block.
Failed(call, error, f) ==
    [ call EXCEPT
        !.pc = "done",
        !.response =
            [ op |-> "get-range", action |-> call.req.action,
              session_id |-> call.req.session_id, code |-> 500,
              detail |-> [ error |-> error, filter |-> f, value |-> call.req[f],
                           must_be_one_of |->
                               IF error = "Invalid value" THEN MustBeOneOf(f) ELSE << >> ] ] ]

\* Lines 820-874.
Succeeded(call) ==
    [ call EXCEPT
        !.pc = "done",
        !.response =
            [ op |-> "get-range", action |-> call.req.action,
              session_id |-> call.req.session_id, code |-> 200,
              status |-> "success",
              message_parts |-> message_parts(call.req),
              action_performed |-> action_performed(call.req) ] ]

\* Faulty variant of RunFrom: a value that is not a key of the table is
\* skipped like a blank one.
RECURSIVE RunFrom_skip_invalid(_, _)
RunFrom_skip_invalid(call, k) ==
    IF k > Len(Filters) THEN Succeeded(call)
    ELSE LET f == Filters[k]
             v == call.req[f]
         IN IF ~Supplied(v) \/ v \notin MapKeys(f) THEN RunFrom_skip_invalid(call, k + 1)
            ELSE [ call EXCEPT !.pc = "filter", !.f = k, !.i = 1,
                               !.attempted = Append(@, f) ]

\* The code from the top of filter block k to the next await or to the
\* response: a block is skipped when its field fails `x and x.strip()`, raises
\* when the value is not a key of its table, and otherwise starts its selector
\* loop.
RECURSIVE RunFrom(_, _)
RunFrom(call, k) ==
    IF k > Len(Filters) THEN Succeeded(call)
    ELSE LET f == Filters[k]
             v == call.req[f]
         IN IF ~Supplied(v) THEN RunFrom(call, k + 1)
            ELSE IF v \notin MapKeys(f) THEN Failed(call, "Invalid value", f)
            ELSE [ call EXCEPT !.pc = "filter", !.f = k, !.i = 1,
                               !.attempted = Append(@, f) ]

\* Faulty variant of Outcomes: a wait on a page that is not open never
\* returns.
Outcomes_blocks_without_page(call) ==
    IF handles[call.page]["page"] # "open" THEN {}
    ELSE CASE call.pc = "load"  -> { "not_found", "found" }
           [] call.pc = "panel" -> { "not_found", "click_failed", "clicked" }
           [] call.pc = "filter" ->
                { "not_found", "click_failed", "wait_failed", "clicked" }
                \cup (IF Verifies(Filters[call.f]) THEN { "clicked_unverified" } ELSE {})

\* What one round of a loop can come to:
\*   not_found          wait_for_selector timed out or raised
\*   found              wait_for_selector returned (line 115, which clicks nothing)
\*   click_failed       the element was found and click() raised
\*   wait_failed        clicked, and wait_for_timeout raised
\*   clicked            clicked (and, where the block checks, seen active)
\*   clicked_unverified clicked, and the active-state check failed
Outcomes(call) ==
    IF handles[call.page]["page"] # "open" THEN { "not_found" }
    ELSE CASE call.pc = "load"  -> { "not_found", "found" }
           [] call.pc = "panel" -> { "not_found", "click_failed", "clicked" }
           [] call.pc = "filter" ->
                { "not_found", "click_failed", "wait_failed", "clicked" }
                \cup (IF Verifies(Filters[call.f]) THEN { "clicked_unverified" } ELSE {})

\* Faulty variant of Resume: a click whose active state could not be
\* confirmed is taken for a strategy that failed.
Resume_verification_fatal(call, o) ==
    CASE call.pc = "load" ->
           [ call EXCEPT !.pc = "panel", !.i = 1, !.attempted = Append(@, "panel") ]
      [] call.pc = "panel" ->
           IF o = "clicked"
           THEN RunFrom([ call EXCEPT !.element_found = TRUE,
                                      !.clicks = Append(@, "panel") ], 1)
           ELSE IF call.i < Len(selectors)
                THEN [ call EXCEPT !.i = @ + 1 ]
                ELSE RunFrom(call, 1)
      [] call.pc = "filter" ->
           LET f == Filters[call.f]
               v == call.req[f]
               after == [ call EXCEPT
                            !.clicks = IF o \in { "wait_failed", "clicked", "clicked_unverified" }
                                       THEN Append(@, f) ELSE @ ]
           IN IF o = "clicked"
              THEN RunFrom(after, call.f + 1)
              ELSE IF call.i < Len(Selectors(f, v))
                   THEN [ after EXCEPT !.i = @ + 1 ]
                   ELSE IF RaisesWhenNotClicked(f, v)
                        THEN Failed(after, "Could not click", f)
                        ELSE RunFrom(after, call.f + 1)

\* Faulty variant of Resume: when no panel-open selector clicked, the handler
\* raises as the filter blocks do.
Resume_panel_fatal(call, o) ==
    CASE call.pc = "load" ->
           [ call EXCEPT !.pc = "panel", !.i = 1, !.attempted = Append(@, "panel") ]
      [] call.pc = "panel" ->
           IF o = "clicked"
           THEN RunFrom([ call EXCEPT !.element_found = TRUE,
                                      !.clicks = Append(@, "panel") ], 1)
           ELSE IF call.i < Len(selectors)
                THEN [ call EXCEPT !.i = @ + 1 ]
                ELSE [ call EXCEPT
                         !.pc = "done",
                         !.response =
                             [ op |-> "get-range", action |-> call.req.action,
                               session_id |-> call.req.session_id, code |-> 500,
                               detail |-> [ error |-> "Could not click", filter |-> "panel",
                                            value |-> None, must_be_one_of |-> << >> ] ] ]
      [] call.pc = "filter" ->
           LET f == Filters[call.f]
               v == call.req[f]
               after == [ call EXCEPT
                            !.clicks = IF o \in { "wait_failed", "clicked", "clicked_unverified" }
                                       THEN Append(@, f) ELSE @ ]
           IN IF o \in { "clicked", "clicked_unverified" }
              THEN RunFrom(after, call.f + 1)
              ELSE IF call.i < Len(Selectors(f, v))
                   THEN [ after EXCEPT !.i = @ + 1 ]
                   ELSE IF RaisesWhenNotClicked(f, v)
                        THEN Failed(after, "Could not click", f)
                        ELSE RunFrom(after, call.f + 1)

\* The call after its pending await came to outcome o, run to its next await
\* or to its response.
Resume(call, o) ==
    CASE call.pc = "load" ->
           \* found or not, the handler goes on to the panel-open loop
           [ call EXCEPT !.pc = "panel", !.i = 1, !.attempted = Append(@, "panel") ]
      [] call.pc = "panel" ->
           IF o = "clicked"
           THEN RunFrom([ call EXCEPT !.element_found = TRUE,
                                      !.clicks = Append(@, "panel") ], 1)
           ELSE IF call.i < Len(selectors)
                THEN [ call EXCEPT !.i = @ + 1 ]
                ELSE RunFrom(call, 1)
      [] call.pc = "filter" ->
           LET f == Filters[call.f]
               v == call.req[f]
               after == [ call EXCEPT
                            !.clicks = IF o \in { "wait_failed", "clicked", "clicked_unverified" }
                                       THEN Append(@, f) ELSE @ ]
           IN IF o \in { "clicked", "clicked_unverified" }
              THEN RunFrom(after, call.f + 1)
              ELSE IF call.i < Len(Selectors(f, v))
                   THEN [ after EXCEPT !.i = @ + 1 ]
                   ELSE IF RaisesWhenNotClicked(f, v)
                        THEN Failed(after, "Could not click", f)
                        ELSE RunFrom(after, call.f + 1)

\* The answer of a get-range handler to request req with the given
\* HTTPException.
Rejected(req, status_code, detail) ==
    [ op |-> "get-range", action |-> req.action, session_id |-> req.session_id,
      code |-> status_code, detail |-> [ error |-> detail ] ]

\* Faulty variant of Rejection: it looks the session up before it looks at the
\* action.
Rejection_lookup_first(req) ==
    IF req.session_id \notin DOMAIN active_sessions
    THEN Rejected(req, 404, "Session not found")
    ELSE IF req.action # "get-range"
    THEN Rejected(req, 400, "Action must be 'get-range'")
    ELSE IF active_sessions[req.session_id].status # "active"
    THEN Rejected(req, 400, "Session is not active")
    ELSE NoResponse

\* Faulty variant of Rejection: it turns away the sessions that are still
\* launching, and lets the ones whose launch failed through.
Rejection_unless_launching(req) ==
    IF req.action # "get-range"
    THEN Rejected(req, 400, "Action must be 'get-range'")
    ELSE IF req.session_id \notin DOMAIN active_sessions
    THEN Rejected(req, 404, "Session not found")
    ELSE IF active_sessions[req.session_id].status = "launching"
    THEN Rejected(req, 400, "Session is not active")
    ELSE NoResponse

\* Lines 93-104: the checks get_range_action makes before its try block, in
\* their order; NoResponse when the request passes them.
Rejection(req) ==
    IF req.action # "get-range"
    THEN Rejected(req, 400, "Action must be 'get-range'")
    ELSE IF req.session_id \notin DOMAIN active_sessions
    THEN Rejected(req, 404, "Session not found")
    ELSE IF active_sessions[req.session_id].status # "active"
    THEN Rejected(req, 400, "Session is not active")
    ELSE NoResponse

\* POST /get-range, up to its first await (lines 93-115).
get_range_action(c, req) ==
    /\ IF Rejection(req) # NoResponse
       THEN /\ resp' = Rejection(req)
            /\ UNCHANGED calls
       ELSE /\ FreeSlot(c)
            /\ calls' = [ calls EXCEPT ![c] =
                            [ op |-> "get-range", req |-> req, page |-> req.session_id,
                              pc |-> "load", f |-> 0, i |-> 0,
                              element_found |-> FALSE, attempted |-> << "load" >>,
                              clicks |-> << >>,
                              response |-> NoResponse ] ]
            /\ resp' = NoResponse
    /\ UNCHANGED << active_sessions, launch, handles, uuids >>

\* Faulty variant of get_range_resume: a call that ends in an error marks
\* its session as failed.
get_range_resume_marks_error(c, o) ==
    /\ calls[c].op = "get-range"
    /\ o \in Outcomes(calls[c])
    /\ \E call \in { Resume(calls[c], o) } :
          IF call.pc = "done"
          THEN /\ calls' = [ calls EXCEPT ![c] = Idle ]
               /\ resp' = call.response
               /\ active_sessions' =
                    IF call.response.code = 500 /\ call.page \in DOMAIN active_sessions
                    THEN [ active_sessions EXCEPT ![call.page].status = "error" ]
                    ELSE active_sessions
          ELSE /\ calls' = [ calls EXCEPT ![c] = call ]
               /\ resp' = NoResponse
               /\ UNCHANGED active_sessions
    /\ UNCHANGED << launch, handles, uuids >>

\* The pending await of get-range call c comes to outcome o.
get_range_resume(c, o) ==
    /\ calls[c].op = "get-range"
    /\ o \in Outcomes(calls[c])
    /\ \E call \in { Resume(calls[c], o) } :
          IF call.pc = "done"
          THEN /\ calls' = [ calls EXCEPT ![c] = Idle ]
               /\ resp' = call.response
          ELSE /\ calls' = [ calls EXCEPT ![c] = call ]
               /\ resp' = NoResponse
    /\ UNCHANGED << active_sessions, launch, handles, uuids >>

AllOutcomes ==
    { "not_found", "found", "click_failed", "wait_failed", "clicked", "clicked_unverified" }

\* ------------------------------------------------------------ the payloads
\* The values a generated payload gives field f: the keys of its table, a
\* value that is in no table, the empty string and a blank.
FieldValues(f) == MapKeys(f) \cup { "Nonexistent", "", " " }

\* One key of each table, for the payloads that give several fields a value.
TypicalValue ==
    [ solutions |-> "Cash", cash_type |-> "Classic", cash_players |-> "6max",
      available_spots |-> "preflop_only", cash_stacks |-> "100",
      bet_sizes |-> "General", rake |-> "NL50 GG", cash_open_size |-> "2.5x",
      cash_3bet_size |-> "Smaller", hero |-> "OOP" ]

\* The values such a payload gives field f: a key of its table, a value that is
\* in no table, and a blank.
SampleValues(f) == { TypicalValue[f], "Nonexistent", " " }

\* The filter fields of the payloads that give exactly one field a value, any
\* of FieldValues, and leave the others out.
OneField ==
    UNION { { [ g \in FilterNames |-> IF g = f THEN v ELSE None ] : v \in FieldValues(f) } :
            f \in FilterNames }

\* The filter fields of the payloads that give at most n of the fields
\* Filters[k..] a value of SampleValues and leave the others out.
RECURSIVE FieldsFrom(_, _)
FieldsFrom(k, n) ==
    IF k > Len(Filters) THEN { << >> }
    ELSE { (Filters[k] :> None) @@ p : p \in FieldsFrom(k + 1, n) }
         \cup (IF n = 0 THEN {}
               ELSE { (Filters[k] :> v) @@ p :
                        v \in SampleValues(Filters[k]), p \in FieldsFrom(k + 1, n - 1) })

GetRangeRequest(action, session_id, fields) ==
    ("action" :> action) @@ ("session_id" :> session_id) @@ fields

\* --------------------------------------------------------------- close_session
\* The first key of CloseOrder at or after position k that the dict holds
\* (`if "page" in session_info: await ...`), or Len(CloseOrder) + 1.
RECURSIVE NextRelease(_, _)
NextRelease(keys, k) ==
    IF k > Len(CloseOrder) \/ CloseOrder[k] \in keys
    THEN k
    ELSE NextRelease(keys, k + 1)

\* Lines 977-981: del active_sessions[session_id] and the 200 response; the
\* del raises KeyError when the entry is gone, which the except branch turns
\* into a 500.
CloseFinish(session_id, released) ==
    IF session_id \in DOMAIN active_sessions
    THEN /\ active_sessions' = Del(active_sessions, session_id)
         /\ resp' = [ op |-> "close", session_id |-> session_id, code |-> 200,
                      released |-> released, detail |-> "closed successfully" ]
    ELSE /\ resp' = [ op |-> "close", session_id |-> session_id, code |-> 500,
                      released |-> released, detail |-> "KeyError" ]
         /\ UNCHANGED active_sessions

\* DELETE /sessions/{session_id}, up to its first await.  session_info is the
\* dict of the entry itself: the call keeps the keys it saw, which no code
\* removes from the dict afterwards.
close_session(c, session_id) ==
    /\ IF session_id \notin DOMAIN active_sessions
       THEN /\ resp' = [ op |-> "close", session_id |-> session_id, code |-> 404,
                         released |-> << >>, detail |-> "Session not found" ]
            /\ UNCHANGED << active_sessions, calls >>
       ELSE LET session_info == active_sessions[session_id]
                k == IF session_info.status = "active"
                     THEN NextRelease(session_info.keys, 1)
                     ELSE Len(CloseOrder) + 1
            IN IF k > Len(CloseOrder)
               THEN /\ CloseFinish(session_id, << >>)
                    /\ UNCHANGED calls
               ELSE /\ FreeSlot(c)
                    /\ calls' = [ calls EXCEPT ![c] =
                                    [ op |-> "close", session_id |-> session_id,
                                      keys |-> session_info.keys, k |-> k,
                                      released |-> << >> ] ]
                    /\ resp' = NoResponse
                    /\ UNCHANGED active_sessions
    /\ UNCHANGED << launch, handles, uuids >>

\* The pending await of close call c (page.close(), context.close(),
\* browser.close() or playwright.stop()) returns (ok) or raises; on a raise
\* the except branch answers 500 and nothing after the await runs.
close_session_resume(c, ok) ==
    /\ calls[c].op = "close"
    /\ LET call == calls[c]
           h == CloseOrder[call.k]
           released == Append(call.released, h)
           k == NextRelease(call.keys, call.k + 1)
       IN IF ~ok
          THEN /\ resp' = [ op |-> "close", session_id |-> call.session_id, code |-> 500,
                            released |-> call.released, detail |-> h ]
               /\ calls' = [ calls EXCEPT ![c] = Idle ]
               /\ UNCHANGED << active_sessions, handles >>
          ELSE /\ handles' = [ handles EXCEPT ![call.session_id][h] = "closed" ]
               /\ IF k > Len(CloseOrder)
                  THEN /\ CloseFinish(call.session_id, released)
                       /\ calls' = [ calls EXCEPT ![c] = Idle ]
                  ELSE /\ calls' = [ calls EXCEPT ![c].k = k, ![c].released = released ]
                       /\ resp' = NoResponse
                       /\ UNCHANGED active_sessions
    /\ UNCHANGED << launch, uuids >>

\* ------------------------------------------------------------ specification
\* The payloads that leave every filter field out.
NoFilterFields == FieldsFrom(1, 0)
\* The payloads that give one filter field any value, or at most MaxSupplied
\* filter fields a sample value.
SomeFilterFields == OneField \cup FieldsFrom(1, MaxSupplied)

\* The server with up to MaxSessions sessions and up to MaxInFlight suspended
\* handlers; the get-range payloads carry no filter field.
Next ==
    \/ root
    \/ \E action \in Actions : create_browser_session(action)
    \/ \E s \in SessionIds, ok \in BOOLEAN : launch_browser_session(s, ok)
    \/ list_sessions
    \/ \E session_id \in ClientIds : get_session_status(session_id)
    \/ \E c \in Slots, action \in Actions, session_id \in ClientIds, fields \in NoFilterFields :
          get_range_action(c, GetRangeRequest(action, session_id, fields))
    \/ \E c \in Slots, o \in AllOutcomes : get_range_resume(c, o)
    \/ \E c \in Slots, session_id \in ClientIds : close_session(c, session_id)
    \/ \E c \in Slots, ok \in BOOLEAN : close_session_resume(c, ok)

Spec == Init /\ [][Next]_vars

\* The server with one session and a client that creates, uses and closes it
\* and waits for the response to a request before it sends the next one (the
\* launch runs in the background all the same); the get-range payloads give up
\* to MaxSupplied filter fields a value.  The client does not send a get-range
\* right after a get-range response: the handler reads nothing of the last
\* response, so it does there what it does in the state before that response.
NextRange ==
    \/ \E action \in Actions :
          calls[1] = Idle /\ uuids = 0 /\ create_browser_session(action)
    \/ \E session_id \in 0..1 :
          calls[1] = Idle /\ close_session(1, session_id)
    \/ \E action \in Actions, session_id \in 0..1 :
          /\ calls[1] = Idle
          /\ resp.op # "get-range"
          /\ \E fields \in SomeFilterFields :
                get_range_action(1, GetRangeRequest(action, session_id, fields))
    \/ \E ok \in BOOLEAN : launch_browser_session(1, ok)
    \/ \E o \in AllOutcomes : get_range_resume(1, o)
    \/ \E ok \in BOOLEAN : close_session_resume(1, ok)

SpecRange == Init /\ [][NextRange]_vars

\* The payloads that give at most one filter field a sample value.
OneSampleField == FieldsFrom(1, 1)

\* The server with one session and the sequential client of NextRange, who
\* also lists the sessions and asks for the status of one, at any moment; the
\* get-range payloads give at most one filter field a value.
NextRegistry ==
    \/ \E action \in Actions :
          calls[1] = Idle /\ uuids = 0 /\ create_browser_session(action)
    \/ \E session_id \in 0..1 :
          calls[1] = Idle /\ close_session(1, session_id)
    \/ \E action \in Actions, session_id \in 0..1 :
          /\ calls[1] = Idle
          /\ resp.op # "get-range"
          /\ \E fields \in OneSampleField :
                get_range_action(1, GetRangeRequest(action, session_id, fields))
    \/ \E ok \in BOOLEAN : launch_browser_session(1, ok)
    \/ \E o \in AllOutcomes : get_range_resume(1, o)
    \/ \E ok \in BOOLEAN : close_session_resume(1, ok)
    \/ list_sessions
    \/ \E session_id \in 0..1 : get_session_status(session_id)

SpecRegistry == Init /\ [][NextRegistry]_vars

\* ------------------------------------------------------------------ properties
\* Steps of the get-range handler, told from the two states of a step.
\* The handler answered a request before its first await (it never held a slot):
GetRangeAnsweredAtOnce ==
    /\ resp'.op = "get-range"
    /\ calls' = calls
\* The handler passed its checks and went on to the page, in slot c:
GetRangeStarted(c) ==
    /\ calls[c].op # "get-range"
    /\ calls'[c].op = "get-range"

\* C1: a create request with action "create" is answered 200 with status
\* "launching" and an id that no entry of the registry had when the request
\* came in, and after the step the registry holds an entry for that id with
\* status "launching".
C1_CreateReturnsFreshLaunchingId ==
    [][ resp'.op = "create" /\ resp'.action = "create" =>
          /\ resp'.code = 200
          /\ resp'.status = "launching"
          /\ resp'.session_id \notin DOMAIN active_sessions
          /\ resp'.session_id \in DOMAIN active_sessions'
          /\ active_sessions'[resp'.session_id].status = "launching" ]_vars

\* A create was just answered while another session is registered.
C1_Witness ==
    /\ resp.op = "create"
    /\ resp.code = 200
    /\ DOMAIN active_sessions \ { resp.session_id } # {}

\* C2: a create request with another action is answered 400 and changes
\* nothing: no entry is added, no launch is started, no id is used up.
C2_OtherActionRejectedWithoutEffect ==
    [][ resp'.op = "create" /\ resp'.action # "create" =>
          /\ resp'.code = 400
          /\ UNCHANGED << active_sessions, launch, handles, calls, uuids >> ]_vars

\* A create with another action was just turned away, with a session
\* registered and an id still to hand out.
C2_Witness ==
    /\ resp.op = "create"
    /\ resp.code = 400
    /\ DOMAIN active_sessions # {}
    /\ uuids < MaxSessions

\* C3 as stated: a get-range request that names a session the registry does
\* not hold is answered 404 whatever its action field is.
C3_AsStated ==
    [][ GetRangeAnsweredAtOnce /\ resp'.session_id \notin DOMAIN active_sessions =>
          resp'.code = 404 ]_vars

\* C3: a get-range request that names a session the registry does not hold
\* never reaches the page; it is answered 404 when its action is "get-range",
\* whatever its filter fields are, and 400 when its action is another one.
C3_UnknownSessionNeverReachesPage ==
    [][ /\ \A c \in Slots :
             GetRangeStarted(c) => calls'[c].req.session_id \in DOMAIN active_sessions
        /\ GetRangeAnsweredAtOnce /\ resp'.session_id \notin DOMAIN active_sessions =>
             /\ resp'.code = IF resp'.action = "get-range" THEN 404 ELSE 400
             /\ UNCHANGED << active_sessions, launch, handles, uuids >> ]_vars

\* A get-range with action "get-range" for an id that is not registered was
\* just answered 404, while a session is registered.
C3_Witness ==
    /\ resp.op = "get-range"
    /\ resp.code = 404
    /\ resp.session_id \notin DOMAIN active_sessions
    /\ DOMAIN active_sessions # {}

\* C4: a get-range request that names a registered session whose status is
\* "launching" or "error" is answered 400 and never reaches the page.
C4_InactiveSessionRejected ==
    [][ /\ \A c \in Slots :
             GetRangeStarted(c) =>
                 /\ calls'[c].req.session_id \in DOMAIN active_sessions
                 /\ active_sessions[calls'[c].req.session_id].status = "active"
        /\ /\ GetRangeAnsweredAtOnce
           /\ resp'.session_id \in DOMAIN active_sessions
           /\ active_sessions[resp'.session_id].status \in { "launching", "error" }
           => /\ resp'.code = 400
              /\ UNCHANGED << active_sessions, launch, handles, uuids >> ]_vars

\* A get-range with action "get-range" for a session whose launch failed was
\* just answered 400.
C4_Witness ==
    /\ resp.op = "get-range"
    /\ resp.code = 400
    /\ resp.action = "get-range"
    /\ resp.session_id \in DOMAIN active_sessions
    /\ active_sessions[resp.session_id].status = "error"

\* The get-range call of slot c sent its response:
GetRangeFinished(c) ==
    /\ calls[c].op = "get-range"
    /\ calls'[c] = Idle

Range(seq) == { seq[k] : k \in 1..Len(seq) }
Reverse(seq) == [ k \in 1..Len(seq) |-> seq[Len(seq) + 1 - k] ]
IsPrefix(a, b) == Len(a) <= Len(b) /\ a = SubSeq(b, 1, Len(a))

\* The first filter at or after position k whose value is given, is not blank
\* and is not one of the filter's values; Len(Filters) + 1 when there is none.
RECURSIVE FirstInvalid(_, _)
FirstInvalid(req, k) ==
    IF k > Len(Filters) THEN k
    ELSE IF Supplied(req[Filters[k]]) /\ req[Filters[k]] \notin MapKeys(Filters[k])
         THEN k
         ELSE FirstInvalid(req, k + 1)

\* The filters whose value is given and is not one of the filter's values
\* (the empty string and the blank among them).
OutOfEnum(req) ==
    { f \in FilterNames : req[f] # None /\ req[f] \notin MapKeys(f) }

\* C5 as stated: a get-range call on an active session whose payload has an
\* out-of-enum value for a filter is answered 500 with a message that names
\* such a filter and its allowed values.
C5_AsStated ==
    [][ \A c \in Slots :
          GetRangeFinished(c) /\ OutOfEnum(calls[c].req) # {} =>
              /\ resp'.code = 500
              /\ resp'.detail.error = "Invalid value"
              /\ resp'.detail.filter \in OutOfEnum(calls[c].req)
              /\ resp'.detail.must_be_one_of = MustBeOneOf(resp'.detail.filter) ]_vars

\* C5: a get-range call on an active session whose payload has, for some
\* filter, a non-blank value that is not one of the filter's values is answered
\* 500 and attempts no filter after the first such filter; its message names
\* that filter and its allowed values, unless a supplied filter before it could
\* not be clicked, and then the message names that earlier filter.
C5_InvalidValueFailsAndStops ==
    [][ \A c \in Slots :
          /\ calls'[c].op = "get-range" =>
                LET k == FirstInvalid(calls'[c].req, 1)
                IN \A j \in (k + 1)..Len(Filters) :
                       Filters[j] \notin Range(calls'[c].attempted)
          /\ GetRangeFinished(c) /\ FirstInvalid(calls[c].req, 1) <= Len(Filters) =>
                LET req == calls[c].req
                    k == FirstInvalid(req, 1)
                IN /\ resp'.code = 500
                   /\ \/ resp'.detail =
                            [ error |-> "Invalid value", filter |-> Filters[k],
                              value |-> req[Filters[k]],
                              must_be_one_of |-> MustBeOneOf(Filters[k]) ]
                      \/ /\ resp'.detail.error = "Could not click"
                         /\ \E j \in 1..(k - 1) :
                               /\ resp'.detail.filter = Filters[j]
                               /\ Supplied(req[Filters[j]]) ]_vars

\* A call was just answered 500 for an invalid value of cash_type, a filter
\* that is not the first one.
C5_Witness ==
    /\ resp.op = "get-range"
    /\ resp.code = 500
    /\ resp.detail.error = "Invalid value"
    /\ resp.detail.filter = "cash_type"
    /\ resp.detail.must_be_one_of = MustBeOneOf("cash_type")

\* C6 as stated: the error for an unknown value of a filter is answered 400.
C6_AsStated ==
    /\ resp.op = "get-range"
    /\ resp.code # 200
    /\ resp.detail.error = "Invalid value"
    => resp.code = 400

\* C6: a bad action is answered 400 with a message that names the action the
\* endpoint takes; an unknown value of a get-range filter is answered 500, not
\* 400, with a message that names the filter's allowed values; and get-range
\* answers 400 for nothing but a bad action and a session that is not active.
C6_BadActionIs400UnknownValueIs500 ==
    /\ resp.op = "create" /\ resp.action # "create" =>
          resp.code = 400 /\ resp.detail = "Action must be 'create'"
    /\ resp.op = "get-range" /\ resp.action # "get-range" =>
          resp.code = 400 /\ resp.detail.error = "Action must be 'get-range'"
    /\ resp.op = "get-range" /\ resp.code = 400 =>
          resp.detail.error \in { "Action must be 'get-range'", "Session is not active" }
    /\ resp.op = "get-range" /\ resp.code # 200 /\ resp.detail.error = "Invalid value" =>
          /\ resp.code = 500
          /\ resp.detail.value \notin MapKeys(resp.detail.filter)
          /\ resp.detail.must_be_one_of = MustBeOneOf(resp.detail.filter)

\* A call was just answered 500 for the value "Nonexistent" of a filter.
C6_Witness ==
    /\ resp.op = "get-range"
    /\ resp.code = 500
    /\ resp.detail.error = "Invalid value"
    /\ resp.detail.value = "Nonexistent"

\* Steps of the close handler, told from the two states of a step.
\* The handler answered a request before its first await:
CloseAnsweredAtOnce ==
    /\ resp'.op = "close"
    /\ calls' = calls
\* The handler went on to its first release, in slot c:
CloseStarted(c) ==
    /\ calls[c].op # "close"
    /\ calls'[c].op = "close"
\* The close call of slot c sent its response:
CloseFinished(c) ==
    /\ calls[c].op = "close"
    /\ calls'[c] = Idle

\* C7 as stated: when a close call on a registered session has answered, the
\* entry is gone, even when a release raised; and a release that raised was
\* followed by the releases that remained.
C7_CloseAlwaysRemovesEntry ==
    [][ \A c \in Slots :
          CloseFinished(c) =>
              /\ calls[c].session_id \notin DOMAIN active_sessions'
              /\ resp'.code = 500 /\ resp'.detail \in HandleNames =>
                    NextRelease(calls[c].keys, calls[c].k + 1) > Len(CloseOrder) ]_vars

\* C8 as stated: a close request for an id that comes after a close for the
\* same id was answered is answered 404.
C8_SecondCloseIs404 ==
    [][ resp.op = "close" =>
          /\ \A c \in Slots : CloseStarted(c) => calls'[c].session_id # resp.session_id
          /\ CloseAnsweredAtOnce /\ resp'.session_id = resp.session_id =>
                resp'.code = 404 ]_vars

\* C9: a close call on an active session releases the page, the context, the
\* browser and the engine in that order, which is the reverse of the order the
\* launch created them in; and the entry of an active session leaves the
\* registry only in the step that answers such a call 200, after all four
\* were released.
C9_ReleasesInReverseOrderThenRemoves ==
    [][ /\ \A c \in Slots :
             calls'[c].op = "close" =>
                 IsPrefix(calls'[c].released, << "page", "context", "browser", "playwright" >>)
        /\ \A s \in DOMAIN active_sessions :
             active_sessions[s].status = "active" /\ s \notin DOMAIN active_sessions' =>
                 /\ resp'.op = "close"
                 /\ resp'.session_id = s
                 /\ resp'.code = 200
                 /\ resp'.released = << "page", "context", "browser", "playwright" >>
                 /\ resp'.released = Reverse(launch[s].acquired)
                 /\ \A h \in HandleNames : handles'[s][h] = "closed" ]_vars

\* A close of an active session was just answered 200 with its entry removed.
C9_Witness ==
    /\ resp.op = "close"
    /\ resp.code = 200
    /\ Len(resp.released) = 4
    /\ resp.session_id \notin DOMAIN active_sessions

\* C10 as stated: the status of a created session changes exactly once, so a
\* launch that is over has changed it.
C10_AsStated ==
    \A s \in SessionIds :
        launch[s].pc \in { "returned", "crashed" } => launch[s].pc = "returned"

\* C10: an entry enters the registry with status "launching", for an id that
\* was never used; the status of an entry changes only from "launching" to
\* "active" or to "error", in the step that ends the launch of that session,
\* and so at most once; it changes in that step exactly when the entry is
\* still registered.
C10_StatusChangesAtMostOnce ==
    [][ \A s \in SessionIds :
          /\ s \in DOMAIN active_sessions' \ DOMAIN active_sessions =>
                /\ active_sessions'[s].status = "launching"
                /\ launch[s].pc = "none"
          /\ s \in DOMAIN active_sessions \cap DOMAIN active_sessions' =>
                /\ active_sessions[s].status # active_sessions'[s].status =>
                      /\ active_sessions[s].status = "launching"
                      /\ active_sessions'[s].status \in { "active", "error" }
                      /\ launch[s].pc # "returned"
                      /\ launch'[s].pc = "returned"
                /\ launch[s].pc # "returned" /\ launch'[s].pc = "returned" =>
                      active_sessions[s].status # active_sessions'[s].status
                /\ active_sessions[s].status # "launching" => launch[s].pc = "returned"
          /\ launch'[s].pc = "returned" /\ launch[s].pc # "returned" =>
                s \in DOMAIN active_sessions
          /\ launch[s].pc \in { "returned", "crashed" } => launch'[s] = launch[s] ]_vars

\* One session is registered with status "error" and another with status
\* "active", both launches over.
C10_Witness ==
    \E s, t \in DOMAIN active_sessions :
        /\ active_sessions[s].status = "error"
        /\ active_sessions[t].status = "active"
        /\ launch[s].pc = "returned"
        /\ launch[t].pc = "returned"

\* C11: the registry holds one entry per id, each for an id that uuid4 has
\* handed out, and an entry holds the four handles (browser, context, page,
\* engine) when its status is "active" and none of them otherwise.
C11_HandlesIffActive ==
    /\ DOMAIN active_sessions \subseteq 1..uuids
    /\ \A s \in DOMAIN active_sessions :
          /\ active_sessions[s].status \in { "launching", "active", "error" }
          /\ active_sessions[s].status = "active" <=>
                active_sessions[s].keys = HandleNames
          /\ active_sessions[s].status # "active" => active_sessions[s].keys = {}

\* One entry is active and holds the four handles while another one, whose
\* launch failed after it had started the engine, holds none.
C11_Witness ==
    \E s, t \in DOMAIN active_sessions :
        /\ active_sessions[s].keys = HandleNames
        /\ active_sessions[t].status = "error"
        /\ active_sessions[t].error # "playwright"
        /\ active_sessions[t].keys = {}

\* The steps of the background launch that await the browser engine.
LaunchSteps == { "playwright", "browser", "context", "page", "goto" }

\* C12, as stated: a launch failure is seen by status queries only, so no
\* create response and no row of a listing shows the status "error".
C12_AsStated ==
    /\ resp.op = "create" /\ resp.code = 200 => resp.status # "error"
    /\ resp.op = "list" => \A row \in resp.sessions : row.status # "error"

\* C12: no create response reports a launch failure (it says "launching" and
\* the launch has not taken a step yet); the step that ends the launch of a
\* registered session leaves it either "active" without an error or "error"
\* with the name of the call that raised, and the step that ends the launch
\* of a removed session writes no entry; a response shows the status "error"
\* only if it is a status answer or a listing and the entry has that status;
\* get-range answers "success" or an error code; a launch that has ended
\* never takes another step.
C12_LaunchFailureStoredNotPushed ==
    [][ /\ resp'.op = "create" /\ resp'.code = 200 =>
              /\ resp'.status = "launching"
              /\ launch'[resp'.session_id].pc = "playwright"
              /\ active_sessions'[resp'.session_id].error = None
        /\ \A s \in SessionIds :
              /\ launch[s].pc \in LaunchSteps /\ launch'[s].pc = "returned" =>
                    /\ s \in DOMAIN active_sessions'
                    /\ \/ /\ active_sessions'[s].status = "active"
                          /\ active_sessions'[s].error = None
                          /\ launch[s].pc = "goto"
                       \/ /\ active_sessions'[s].status = "error"
                          /\ active_sessions'[s].error = launch[s].pc
              /\ launch[s].pc \in LaunchSteps /\ launch'[s].pc = "crashed" =>
                    /\ s \notin DOMAIN active_sessions
                    /\ active_sessions' = active_sessions
              /\ launch[s].pc \in { "returned", "crashed" } => launch'[s] = launch[s]
        /\ resp'.op = "status" /\ resp'.code = 200 =>
              resp'.status = active_sessions[resp'.session_id].status
        /\ resp'.op = "list" =>
              \A row \in resp'.sessions :
                  row.status = active_sessions[row.session_id].status
        /\ resp'.op = "get-range" /\ resp'.code = 200 => resp'.status = "success"
      ]_vars

\* A status query answers "error" for a session whose launch failed when it
\* started the browser, and the launch has ended.
C12_Witness ==
    /\ resp.op = "status" /\ resp.code = 200 /\ resp.status = "error"
    /\ active_sessions[resp.session_id].error = "browser"
    /\ launch[resp.session_id].pc = "returned"

\* C13 as stated: when a close request removes the entry of a session that
\* is still launching, none of the handles the launch has acquired for that
\* session is left open.
C13_CloseOfLaunchingTearsDown ==
    [][ \A s \in DOMAIN active_sessions :
          /\ active_sessions[s].status = "launching"
          /\ s \notin DOMAIN active_sessions'
          => \A h \in HandleNames : handles'[s][h] # "open" ]_vars

\* C14 as stated: when the last location strategy of a supplied filter
\* locates nothing, or its click raises, and no strategy of that filter has
\* clicked before, the call is answered 500 with an error that names the
\* filter and the value.
C14_NoClickFailsLoudly ==
    [][ \A c \in Slots : \A o \in { "not_found", "click_failed" } :
          /\ calls[c].op = "get-range"
          /\ calls[c].pc = "filter"
          /\ Filters[calls[c].f] \notin Range(calls[c].clicks)
          /\ calls[c].i = Len(Selectors(Filters[calls[c].f], calls[c].req[Filters[calls[c].f]]))
          /\ get_range_resume(c, o)
          => /\ resp'.op = "get-range"
             /\ resp'.code = 500
             /\ resp'.detail.error = "Could not click"
             /\ resp'.detail.filter = Filters[calls[c].f]
             /\ resp'.detail.value = calls[c].req[Filters[calls[c].f]] ]_vars

\* The order of the filters the claims speak of, after the wait for the page
\* load and the panel.
FixedOrder ==
    << "load", "panel", "solutions", "cash_type", "cash_players", "available_spots",
       "cash_stacks", "bet_sizes", "rake", "cash_open_size", "cash_3bet_size", "hero" >>

PlaceOf(x) == CHOOSE k \in 1..Len(FixedOrder) : FixedOrder[k] = x

\* C15: in every state of a get-range call, what the call has attempted so
\* far is the load wait, then the panel, then filters in strictly increasing fixed order,
\* each of them supplied, and every supplied filter before the block the call
\* is in has been attempted; the clicks so far are in the fixed order too,
\* each for something attempted, none for a filter after the current block,
\* and a filter is clicked only after the panel-open attempt.
C15_FiltersInFixedOrder ==
    \A c \in Slots :
        calls[c].op = "get-range" =>
            LET att == calls[c].attempted
                cl == calls[c].clicks
                req == calls[c].req
            IN /\ \A i, j \in 1..Len(att) : i < j => PlaceOf(att[i]) < PlaceOf(att[j])
               /\ \A i, j \in 1..Len(cl) : i < j => PlaceOf(cl[i]) <= PlaceOf(cl[j])
               /\ att[1] = "load"
               /\ Len(att) > 1 => att[2] = "panel"
               /\ Range(cl) \subseteq Range(att)
               /\ \A f \in Range(att) \ { "load", "panel" } : Supplied(req[f])
               /\ calls[c].pc = "filter" =>
                     /\ att[Len(att)] = FixedOrder[calls[c].f + 2]
                     /\ \A k \in 3..(calls[c].f + 1) :
                           Supplied(req[FixedOrder[k]]) => FixedOrder[k] \in Range(att)
               /\ calls[c].pc \in { "load", "panel" } => Range(cl) = {}

\* A call has clicked the panel and solutions, has skipped the blank
\* cash_type, and is now locating cash_players.
C15_Witness ==
    \E c \in Slots :
        /\ calls[c].op = "get-range"
        /\ calls[c].pc = "filter"
        /\ calls[c].attempted = << "load", "panel", "solutions", "cash_players" >>
        /\ calls[c].clicks = << "panel", "solutions" >>

\* The supplied filters of a request.
SuppliedFilters(req) == { f \in FilterNames : Supplied(req[f]) }

\* C16 as stated: when a get-range call has answered, every supplied filter
\* was attempted, or is the one whose block raised, whatever happened to the
\* filters before it.
C16_AsStated ==
    [][ \A c \in Slots :
          GetRangeFinished(c) =>
              \A f \in SuppliedFilters(calls[c].req) :
                  \/ f \in Range(calls[c].attempted)
                  \/ resp'.code = 500 /\ resp'.detail.filter = f ]_vars

\* C16: a filter that is absent or blank is passed over and the filters after
\* it are still attempted, so a call answered 200 has attempted every
\* supplied filter; but the first block that raises ends the call: a call
\* answered 500 has attempted every supplied filter before the one it names
\* and none after it, and in every state of a call each filter attempted
\* before the current one has been clicked.
C16_AttemptedUntilFirstRaise ==
    [][ \A c \in Slots :
          /\ calls'[c].op = "get-range" =>
                \A k \in 1..(Len(calls'[c].attempted) - 1) :
                    calls'[c].attempted[k] \in { "load", "panel" } \cup Range(calls'[c].clicks)
          /\ GetRangeFinished(c) /\ resp'.code = 200 =>
                SuppliedFilters(calls[c].req) \subseteq Range(calls[c].attempted)
          /\ GetRangeFinished(c) /\ resp'.code = 500 =>
                \A f \in SuppliedFilters(calls[c].req) :
                    /\ PlaceOf(f) < PlaceOf(resp'.detail.filter) =>
                          f \in Range(calls[c].attempted)
                    /\ PlaceOf(f) > PlaceOf(resp'.detail.filter) =>
                          f \notin Range(calls[c].attempted) ]_vars

\* A call passed over the blank solutions field and is locating cash_players.
C16_Witness ==
    \E c \in Slots :
        /\ calls[c].op = "get-range"
        /\ calls[c].req.solutions = " "
        /\ calls[c].attempted = << "load", "panel", "cash_players" >>

\* The supplied filters of a request, in the fixed order.
SuppliedInOrder(req) ==
    SelectSeq(SubSeq(FixedOrder, 3, Len(FixedOrder)), LAMBDA f : Supplied(req[f]))

\* The payload of the example: solutions "Cash", cash_players "6max", no
\* other filter.
IsCash6max(req) ==
    \A f \in FilterNames :
        req[f] = (CASE f = "solutions" -> "Cash" [] f = "cash_players" -> "6max" [] OTHER -> None)

clicked_cash_and_clicked_6max ==
    << "c", "l", "i", "c", "k", "e", "d", "_", "c", "a", "s", "h", "_", "a", "n", "d", "_", "c", "l", "i", "c", "k", "e", "d", "_", "6", "m", "a", "x" >>

\* C17: a call answered 200 has as action_performed the tokens of its supplied
\* filters, in the fixed order, joined by "_and_", or "clicked_range_selector"
\* when it has none, and as message the fixed first part followed by one part
\* "<value> <filter> button" per supplied filter in that order; for the
\* payload {solutions: "Cash", cash_players: "6max"} action_performed is
\* "clicked_cash_and_clicked_6max" and the message has the parts
\* "Cash solutions button" and "6max cash_players button".
C17_ActionPerformedNamesSuppliedFilters ==
    [][ \A c \in Slots :
          GetRangeFinished(c) /\ resp'.code = 200 =>
              LET req == calls[c].req
                  fs == SuppliedInOrder(req)
                  tokens == [ k \in 1..Len(fs) |->
                                clicked_ \o TokenText(fs[k], Chars[req[fs[k]]]) ]
              IN /\ resp'.action_performed =
                       IF fs = << >> THEN clicked_range_selector ELSE join(_and_, tokens)
                 /\ resp'.message_parts =
                       << << "Successfully clicked on range selector div" >> >>
                       \o [ k \in 1..Len(fs) |-> << req[fs[k]], " ", fs[k], " button" >> ]
                 /\ IsCash6max(req) =>
                       /\ resp'.action_performed = clicked_cash_and_clicked_6max
                       /\ resp'.message_parts =
                             << << "Successfully clicked on range selector div" >>,
                                << "Cash", " ", "solutions", " button" >>,
                                << "6max", " ", "cash_players", " button" >> >> ]_vars

\* The call with the payload of the example was just answered 200.
C17_Witness ==
    /\ resp.op = "get-range"
    /\ resp.code = 200
    /\ resp.action_performed = clicked_cash_and_clicked_6max
    /\ Len(resp.message_parts) = 3

\* The characters an action token may have: lowercase letters, digits, "_".
TokenAlphabet ==
    { "a", "b", "c", "d", "e", "f", "g", "h", "i", "j", "k", "l", "m", "n", "o", "p", "q",
      "r", "s", "t", "u", "v", "w", "x", "y", "z",
      "0", "1", "2", "3", "4", "5", "6", "7", "8", "9", "_" }

\* C18: the keys of each filter's table are the values of its enum; a call
\* that is in the block of filter f with value v has found v in the table, and
\* the token of v differs from the token of every other value of f and is
\* made of lowercase letters, digits and "_" only; no value of the enum is
\* ever answered "Invalid value"; and every action_performed sent is made of
\* those characters.
C18_LookupTotalTokensDistinct ==
    /\ \A f \in FilterNames : MapKeys(f) = Range(MustBeOneOf(f))
    /\ \A c \in Slots :
          calls[c].op = "get-range" /\ calls[c].pc = "filter" =>
              LET f == Filters[calls[c].f]
                  v == calls[c].req[f]
                  token == clicked_ \o TokenText(f, Chars[v])
              IN /\ v \in MapKeys(f)
                 /\ Range(token) \subseteq TokenAlphabet
                 /\ \A w \in MapKeys(f) \ { v } :
                       clicked_ \o TokenText(f, Chars[w]) # token
    /\ resp.op = "get-range" /\ resp.code = 500 /\ resp.detail.error = "Invalid value" =>
          resp.detail.value \notin Range(MustBeOneOf(resp.detail.filter))
    /\ resp.op = "get-range" /\ resp.code = 200 =>
          Range(resp.action_performed) \subseteq TokenAlphabet

\* A call is locating the cash_type button of "Straddle+Ante", a value whose
\* token needs a replacement.
C18_Witness ==
    \E c \in Slots :
        /\ calls[c].op = "get-range"
        /\ calls[c].pc = "filter"
        /\ Filters[calls[c].f] = "cash_type"
        /\ calls[c].req.cash_type = "Straddle+Ante"

\* C19: the answer to a listing has one row per registry entry, with the
\* entry's id, status and url, and a total equal to the number of entries; a
\* registered session whose launch has not ended is listed as "launching".
C19_ListShowsEveryEntry ==
    resp.op = "list" =>
        /\ resp.code = 200
        /\ resp.total = Cardinality(DOMAIN active_sessions)
        /\ Cardinality(resp.sessions) = resp.total
        /\ { row.session_id : row \in resp.sessions } = DOMAIN active_sessions
        /\ \A row \in resp.sessions :
              /\ row.status = active_sessions[row.session_id].status
              /\ row.url = active_sessions[row.session_id].url
              /\ launch[row.session_id].pc \in LaunchSteps => row.status = "launching"

\* A listing shows two sessions: one whose launch is under way, as
\* "launching", and one that is active.
C19_Witness ==
    /\ resp.op = "list"
    /\ resp.total = 2
    /\ \E row \in resp.sessions :
          row.status = "launching" /\ launch[row.session_id].pc = "context"
    /\ \E row \in resp.sessions : row.status = "active"

\* C20: a step changes the set of registered ids only by adding the id a
\* create request is answered with (200), an id that was not registered, or by
\* removing the id a close request is answered 200 for; the steps that answer
\* a status query, a listing or a get-range call (200, 400, 404 or 500), the
\* steps of the background launch and the steps that send no answer leave
\* the set as it is, and so does the passing of time.
C20_OnlyCreateAddsOnlyCloseRemoves ==
    [][ LET before == DOMAIN active_sessions
            after == DOMAIN active_sessions'
        IN /\ after # before =>
                 \/ /\ resp'.op = "create" /\ resp'.code = 200
                    /\ resp'.session_id \notin before
                    /\ after = before \cup { resp'.session_id }
                 \/ /\ resp'.op = "close" /\ resp'.code = 200
                    /\ resp'.session_id \in before
                    /\ after = before \ { resp'.session_id }
           /\ resp'.op \in { "status", "list", "get-range", "root", "none" } =>
                 after = before
           /\ launch' # launch /\ resp'.op # "create" => after = before ]_vars

\* A get-range call on the registered session was just answered 500, and the
\* session is still registered.
C20_Witness ==
    /\ resp.op = "get-range"
    /\ resp.code = 500
    /\ resp.session_id \in DOMAIN active_sessions

\* C21 as stated: no two get-range calls that have begun their page
\* interactions are in flight on the page of the same session.
C21_NoOverlapOnOnePage ==
    \A c, d \in Slots :
        /\ c # d
        /\ calls[c].op = "get-range" /\ calls[d].op = "get-range"
        /\ calls[c].pc # "load" /\ calls[d].pc # "load"
        => calls[c].page # calls[d].page

\* C22 as stated: a call moves through the strategies of a filter one by
\* one from the first, and while it is trying a strategy of a filter no
\* strategy of that filter has clicked yet.
C22_FirstSuccessWins ==
    [][ \A c \in Slots :
          calls'[c] # calls[c] /\ calls'[c].op = "get-range" /\ calls'[c].pc = "filter" =>
              /\ IF calls[c].op = "get-range" /\ calls[c].pc = "filter"
                    /\ calls[c].f = calls'[c].f
                 THEN calls'[c].i = calls[c].i + 1
                 ELSE calls'[c].i = 1
              /\ calls'[c].i <= Len(Selectors(Filters[calls'[c].f],
                                              calls'[c].req[Filters[calls'[c].f]]))
              /\ Filters[calls'[c].f] \notin Range(calls'[c].clicks) ]_vars

\* C23: the step in which a strategy of filter f has clicked and the active
\* state could not be confirmed records the click and leaves the block of f:
\* the call goes on to the first strategy of a later filter, or it answers
\* 200, or it answers 500 for an invalid value of a later filter; it never
\* tries another strategy of f and never answers "Could not click".
C23_UnconfirmedClickCounts ==
    [][ \A c \in Slots :
          /\ calls[c].op = "get-range"
          /\ calls[c].pc = "filter"
          /\ get_range_resume(c, "clicked_unverified")
          => LET f == Filters[calls[c].f]
             IN \/ /\ calls'[c].op = "get-range"
                   /\ calls'[c].pc = "filter"
                   /\ calls'[c].f > calls[c].f
                   /\ calls'[c].i = 1
                   /\ calls'[c].clicks = Append(calls[c].clicks, f)
                   /\ resp' = NoResponse
                \/ /\ calls'[c] = Idle
                   /\ resp'.op = "get-range"
                   /\ \/ resp'.code = 200
                      \/ /\ resp'.code = 500
                         /\ resp'.detail.error = "Invalid value"
                         /\ PlaceOf(resp'.detail.filter) > PlaceOf(f) ]_vars

\* The state a call is in after a solutions strategy clicked without the
\* active state being confirmed: it is locating cash_players, with the
\* solutions click recorded.
C23_Witness ==
    \E c \in Slots :
        /\ calls[c].op = "get-range"
        /\ calls[c].pc = "filter"
        /\ Filters[calls[c].f] = "cash_players"
        /\ calls[c].req.solutions = "Cash"
        /\ \E i \in 1..Len(Selectors("solutions", "Cash")) :
              calls[c] = Resume([ calls[c] EXCEPT !.f = 1, !.i = i,
                                                  !.attempted = << "load", "panel", "solutions" >>,
                                                  !.clicks = << "panel" >> ],
                                "clicked_unverified")

\* C24: the step in which the last panel-open selector locates nothing, or
\* its click raises, does not end the call with an error about the panel: the
\* call goes on to the first strategy of its first supplied filter, or, with
\* no filter to act on, answers 200, or answers 500 for the invalid value of
\* its first supplied filter; and a call that clicked no panel and whose last
\* filter is then clicked is answered 200.
C24_PanelFailureIsNotFatal ==
    [][ \A c \in Slots :
          /\ calls[c].op = "get-range" /\ calls[c].pc = "panel"
             /\ calls[c].i = Len(selectors)
             /\ (\E o \in { "not_found", "click_failed" } : get_range_resume(c, o))
             => LET req == calls[c].req
                    fs == SuppliedInOrder(req)
                IN /\ fs = << >> =>
                         calls'[c] = Idle /\ resp'.op = "get-range" /\ resp'.code = 200
                   /\ fs # << >> /\ req[fs[1]] \in MapKeys(fs[1]) =>
                         /\ calls'[c].op = "get-range"
                         /\ calls'[c].pc = "filter"
                         /\ Filters[calls'[c].f] = fs[1]
                         /\ calls'[c].i = 1
                         /\ calls'[c].attempted = << "load", "panel", fs[1] >>
                         /\ calls'[c].clicks = << >>
                         /\ ~calls'[c].element_found
                   /\ fs # << >> /\ req[fs[1]] \notin MapKeys(fs[1]) =>
                         /\ calls'[c] = Idle
                         /\ resp'.code = 500
                         /\ resp'.detail.error = "Invalid value"
                         /\ resp'.detail.filter = fs[1]
          /\ calls[c].op = "get-range" /\ calls[c].pc = "filter"
             /\ "panel" \notin Range(calls[c].clicks)
             /\ (\A j \in (calls[c].f + 1)..Len(Filters) : ~Supplied(calls[c].req[Filters[j]]))
             /\ get_range_resume(c, "clicked")
             => calls'[c] = Idle /\ resp'.op = "get-range" /\ resp'.code = 200 ]_vars

\* A call that clicked no panel has clicked solutions and is locating its
\* last filter, cash_players.
C24_Witness ==
    \E c \in Slots :
        /\ calls[c].op = "get-range"
        /\ calls[c].pc = "filter"
        /\ ~calls[c].element_found
        /\ calls[c].clicks = << "solutions" >>
        /\ Filters[calls[c].f] = "cash_players"
        /\ "clicked" \in Outcomes(calls[c])

\* C25: while a get-range call runs, the clicks it has made stay made (its
\* record of clicks only grows); the step in which it answers 500 touches
\* neither the registry nor the handles nor the launch, and leaves the
\* session registered, "active", holding its four handles.
C25_FailureRollsNothingBack ==
    [][ \A c \in Slots :
          /\ calls[c].op = "get-range" /\ calls'[c].op = "get-range" =>
                /\ IsPrefix(calls[c].clicks, calls'[c].clicks)
                /\ active_sessions' = active_sessions
                /\ handles' = handles
          /\ GetRangeFinished(c) /\ resp'.code = 500 =>
                /\ active_sessions' = active_sessions
                /\ handles' = handles
                /\ launch' = launch
                /\ calls[c].page \in DOMAIN active_sessions'
                /\ active_sessions'[calls[c].page].status = "active"
                /\ active_sessions'[calls[c].page].keys = HandleNames ]_vars

\* A call has clicked the panel and solutions and is at the last strategy of
\* cash_players, which may locate nothing: the call then answers 500.
C25_Witness ==
    \E c \in Slots :
        /\ calls[c].op = "get-range"
        /\ calls[c].pc = "filter"
        /\ Filters[calls[c].f] = "cash_players"
        /\ calls[c].i = Len(Selectors("cash_players", calls[c].req.cash_players))
        /\ calls[c].clicks = << "panel", "solutions" >>
        /\ Resume(calls[c], "not_found").response.code = 500

\* C26 as stated: a call whose payload gives some filter a value that is not
\* one of the filter's values, the empty string and blanks included, is
\* answered 500.
C26_AsStated ==
    [][ \A c \in Slots :
          GetRangeFinished(c) /\ OutOfEnum(calls[c].req) # {} => resp'.code = 500 ]_vars

\* C26: a call whose payload gives some filter a non-blank value that is not
\* one of the filter's values is answered 500; a value that is empty or made
\* of blanks is treated as a field left out: its filter is never attempted,
\* and a call whose filter values are all absent or blank is answered 200
\* with "clicked_range_selector" when its panel loop ends.
C26_BlankIsAbsentOtherUnknownsFail ==
    [][ \A c \in Slots :
          /\ GetRangeFinished(c)
             /\ (\E f \in FilterNames :
                    calls[c].req[f] \notin MapKeys(f) \cup { None, "", " " })
             => resp'.code = 500
          /\ calls'[c].op = "get-range" =>
                \A f \in FilterNames :
                    calls'[c].req[f] \in { "", " " } => f \notin Range(calls'[c].attempted)
          /\ calls[c].op = "get-range" /\ calls[c].pc = "panel"
             /\ (\A f \in FilterNames : calls[c].req[f] \in { None, "", " " })
             /\ get_range_resume(c, "clicked")
             => /\ calls'[c] = Idle
                /\ resp'.code = 200
                /\ resp'.action_performed = clicked_range_selector ]_vars

\* A call whose payload gives cash_type the empty string, and no other
\* filter, is in its panel loop; when a selector clicks, it answers 200.
C26_Witness ==
    \E c \in Slots :
        /\ calls[c].op = "get-range"
        /\ calls[c].pc = "panel"
        /\ calls[c].req.cash_type = ""
        /\ OutOfEnum(calls[c].req) = { "cash_type" }
        /\ Resume(calls[c], "clicked").response.code = 200

\* The most rounds the filter blocks from position k on can still take for
\* request req: the strategies of every filter that will be attempted.
RECURSIVE FilterRoundsFrom(_, _)
FilterRoundsFrom(req, k) ==
    IF k > Len(Filters) THEN 0
    ELSE LET f == Filters[k]
         IN IF ~Supplied(req[f]) THEN FilterRoundsFrom(req, k + 1)
            ELSE IF req[f] \notin MapKeys(f) THEN 0
            ELSE Len(Selectors(f, req[f])) + FilterRoundsFrom(req, k + 1)

\* The most rounds a suspended get-range call can still take before it
\* answers.
RoundsLeft(call) ==
    CASE call.pc = "load" ->
           1 + Len(selectors) + FilterRoundsFrom(call.req, 1)
      [] call.pc = "panel" ->
           (Len(selectors) - call.i + 1) + FilterRoundsFrom(call.req, 1)
      [] call.pc = "filter" ->
           (Len(Selectors(Filters[call.f], call.req[Filters[call.f]])) - call.i + 1)
           + FilterRoundsFrom(call.req, call.f + 1)

\* C27: a suspended get-range call always has a round to take, whose wait
\* ends by returning or raising, and at least one and a bounded number of
\* rounds left; every step of the call either sends its response or leaves it
\* with fewer rounds left.  So a call answers after a bounded number of
\* bounded waits.
C27_EveryRoundBringsTheAnswerCloser ==
    [][ \A c \in Slots :
          /\ calls'[c].op = "get-range" =>
                /\ handles' = handles => Outcomes(calls'[c]) # {}
                /\ RoundsLeft(calls'[c]) >= 1
          /\ calls[c].op = "get-range" /\ calls'[c] # calls[c] =>
                \/ /\ calls'[c] = Idle
                   /\ resp'.op = "get-range"
                   /\ resp'.code \in { 200, 500 }
                \/ /\ calls'[c].op = "get-range"
                   /\ resp' = NoResponse
                   /\ RoundsLeft(calls'[c]) < RoundsLeft(calls[c]) ]_vars

\* A call with two filters is at its last round: whatever the round comes
\* to, the call answers.
C27_Witness ==
    \E c \in Slots :
        /\ calls[c].op = "get-range"
        /\ calls[c].pc = "filter"
        /\ Len(calls[c].attempted) = 4
        /\ RoundsLeft(calls[c]) = 1
        /\ \A o \in Outcomes(calls[c]) : Resume(calls[c], o).pc = "done"

\* C28: an id that uuid4 has handed out and that is not in the registry,
\* because a close request removed its entry, is not in the registry after
\* any step: not after a step of its own launch, which ends with a KeyError,
\* and not after a create request, which gets another id.
C28_RemovedIdStaysRemoved ==
    [][ \A s \in SessionIds :
          /\ s <= uuids /\ s \notin DOMAIN active_sessions =>
                s \notin DOMAIN active_sessions'
          /\ s \notin DOMAIN active_sessions /\ launch[s].pc \in LaunchSteps
             /\ launch'[s].pc \notin LaunchSteps
             => launch'[s].pc = "crashed" /\ active_sessions' = active_sessions ]_vars

\* Session 1 was closed while it was launching, its launch has ended since,
\* and another session was created after it: only the other one is
\* registered.
C28_Witness ==
    /\ launch[1].pc = "crashed"
    /\ launch[1].acquired # << >>
    /\ DOMAIN active_sessions = { 2 }

\* C29 as stated: when the launch of a session has ended and the session is
\* in status "error" or no longer registered, none of the handles the launch
\* acquired is open.
C29_NoHandleOutlivesItsSession ==
    \A s \in SessionIds :
        /\ launch[s].pc \in { "returned", "crashed" }
        /\ \/ s \notin DOMAIN active_sessions
           \/ active_sessions[s].status = "error"
        => \A h \in HandleNames : handles[s][h] # "open"

\* C30 as stated: while two close calls for the same session are in flight,
\* neither releases a handle that is no longer open, and a close call whose
\* releases all returned is answered 200 or 404, never 500.
C30_OverlappingClosesReleaseOnce ==
    [][ \A c \in Slots :
          /\ calls[c].op = "close"
             /\ (\E d \in Slots \ { c } :
                    calls[d].op = "close" /\ calls[d].session_id = calls[c].session_id)
             /\ close_session_resume(c, TRUE)
             => handles[calls[c].session_id][CloseOrder[calls[c].k]] = "open"
          /\ CloseFinished(c) /\ close_session_resume(c, TRUE) =>
                resp'.code \in { 200, 404 } ]_vars

\* The outcomes of a round in which element.click() returned.
ClickingOutcomes == { "wait_failed", "clicked", "clicked_unverified" }

\* C31 as stated: a round of a filter block that clicks is the first click
\* the call makes for that filter, whatever the steps after the click come
\* to; so no filter is clicked twice within one call.
C31_EachFilterClickedAtMostOnce ==
    [][ \A c \in Slots : \A o \in ClickingOutcomes :
          /\ calls[c].op = "get-range" /\ calls[c].pc = "filter"
          /\ get_range_resume(c, o)
          => Filters[calls[c].f] \notin Range(calls[c].clicks) ]_vars

\* Whether a success response says that the range selector was clicked: in
\* the first part of its message or in its action_performed.
SaysRangeSelectorClicked(response) ==
    \/ response.message_parts[1] = << "Successfully clicked on range selector div" >>
    \/ response.action_performed = clicked_range_selector

\* C32 as stated: a get-range call answers 200 with a response that says the
\* range selector was clicked only if one of the panel-open selectors was
\* found and clicked during that call.
C32_SuccessOnlyClaimsARealPanelClick ==
    [][ \A c \in Slots : \A o \in AllOutcomes :
          /\ calls[c].op = "get-range"
          /\ get_range_resume(c, o)
          /\ Resume(calls[c], o).pc = "done"
          /\ Resume(calls[c], o).response.code = 200
          /\ SaysRangeSelectorClicked(Resume(calls[c], o).response)
          => Resume(calls[c], o).element_found ]_vars

\* C33 as stated, for the values that are not blank: a get-range call whose
\* payload gives some filter a value that is not one of the filter's values
\* makes no click on the page, neither on the panel-open element nor on the
\* control of any filter.
C33_InvalidRequestClicksNothing ==
    [][ \A c \in Slots : \A o \in ClickingOutcomes :
          /\ calls[c].op = "get-range"
          /\ calls[c].pc \in { "panel", "filter" }
          /\ get_range_resume(c, o)
          => FirstInvalid(calls[c].req, 1) > Len(Filters) ]_vars

\* The (filter, value) pairs a payload supplies, and whether each of its
\* values is one of its filter's values.
SuppliedPairs(req) == { << f, req[f] >> : f \in { g \in FilterNames : req[g] # None } }
AllValuesValid(req) == \A f \in FilterNames : req[f] = None \/ req[f] \in MapKeys(f)

\* C34 as stated: the action_performed of a call answered 200 whose values
\* are all valid differs from the action_performed the handler builds for
\* every payload with all values valid that supplies another set of
\* (filter, value) pairs.
C34_DifferentFiltersDifferentTags ==
    [][ \A c \in Slots :
          GetRangeFinished(c) /\ resp'.code = 200 /\ AllValuesValid(calls[c].req) =>
              \A fields \in SomeFilterFields :
                  AllValuesValid(fields) /\ SuppliedPairs(fields) # SuppliedPairs(calls[c].req)
                  => action_performed(fields) # resp'.action_performed ]_vars

\* C35 as stated: the first selector a filter block tries for a valid value
\* differs from the first selector of every other filter for each of its
\* valid values.
C35_FirstSelectorsBelongToOneFilter ==
    \A c \in Slots :
        calls[c].op = "get-range" /\ calls[c].pc = "filter" /\ calls[c].i = 1 =>
            LET f == Filters[calls[c].f]
                v == calls[c].req[f]
            IN \A g \in FilterNames \ { f } : \A w \in MapKeys(g) :
                   Selectors(g, w)[1] # Selectors(f, v)[1]

\* C36 as stated: once a close call has removed a session, a get-range call
\* that holds the page of that session (it was in flight when the close
\* started) finds no element and clicks nothing on that page, and is not
\* answered 200.
C36_NothingSucceedsAfterClose ==
    [][ \A c \in Slots : \A o \in AllOutcomes :
          /\ calls[c].op = "get-range"
          /\ calls[c].page \notin DOMAIN active_sessions
          /\ get_range_resume(c, o)
          => /\ o \notin ClickingOutcomes \cup { "found" }
             /\ resp'.code # 200 ]_vars

====
